---- MODULE Spec2Model ----
(***************************************************************************)
(* A model of the GFT orchestration scripts: complexity.py,                *)
(* ripples_flight.py and gft/saveAllLands.py.  Each run executes one of    *)
(* the three entry points against a file system; the external tools (GFT,  *)
(* the image optimiser, the MP4 encoder, the geometry library) are         *)
(* recorded as calls, and GFT's output is an environment choice.           *)
(***************************************************************************)
EXTENDS Integers, Sequences, FiniteSets, TLC

VARIABLES
    script,     \* which entry point this run executes
    args,       \* the parsed command line (scripts) / the parameters (saveAllLands)
    env,        \* what the external GFT tool writes when it is run; the shapefile records
    pc,         \* the phase the run is in
    dur,        \* ripples_flight.py: loop variable of "for dur in range(1, 25)"
    k,          \* index into combs of the loop in progress / index of the record / of maxSizes
    dist,       \* ripples_flight.py: loop variable of the frame loop
    fs,         \* the file system: existing file name -> content
    fs0,        \* the file system as it was when the run started (never assigned)
    printed,    \* the commands printed by print(f'Running "..." ...')
    calls,      \* every external call made so far, in order
    reads,      \* the result files opened for reading so far, in order
    maxDist,    \* ripples_flight.py: the survey's maxDist of each combination
    frames,     \* ripples_flight.py: the list "frames"
    geom,       \* saveAllLands: the geometry operations applied so far, in order
    polys,      \* saveAllLands: the list "polys" of the aggregation
    ret         \* saveAllLands: the return value ("none" until it returns)

vars == <<script, args, env, pc, dur, k, dist, fs, fs0, printed, calls, reads,
          maxDist, frames, geom, polys, ret>>

-----------------------------------------------------------------------------
(* Bounds of the model *)

\* the frame loop runs dist = 1..MaxFrameDist (30000 in the source)
MaxFrameDist == 236

-----------------------------------------------------------------------------
(* Program constants *)

\* timeout = None of subprocess.run
NoTimeout == -1
\* default of --timeout, in seconds
DefaultTimeout == 60
\* range(1, 25)
LastDur == 24
\* "NOTE: Say that 928,000 metres takes 1 hour at 500 knots."
MetresPerHour == 928000

\* combs: (nAng, neRes, prec, color); the colour is only used for plotting
combs ==
    << [nAng |-> 9,  neRes |-> "110m", prec |-> 116000],
       [nAng |-> 17, neRes |-> "50m",  prec |-> 116000 \div 2],
       [nAng |-> 33, neRes |-> "10m",  prec |-> 116000 \div 4] >>

\* maxSizes of the down-scaled MP4 files; 0 stands for the full-size MP4
maxSizes == <<0, 512, 1024, 2048>>

-----------------------------------------------------------------------------
(* Formatting and parsing of the numbers embedded in file names *)

Digit == <<"0", "1", "2", "3", "4", "5", "6", "7", "8", "9">>

RECURSIVE DigitsOf(_)
\* the decimal digits of a natural number, most significant first
DigitsOf(n) ==
    IF n < 10 THEN <<Digit[n + 1]>>
    ELSE DigitsOf(n \div 10) \o <<Digit[(n % 10) + 1]>>

Repeat(c, n) == [i \in 1..n |-> c]

\* zero padding of a digit string to at least w characters
ZeroPad(s, w) == IF Len(s) >= w THEN s ELSE Repeat("0", w - Len(s)) \o s

\* f"{n:06d}"
Fmt06d(n) == ZeroPad(DigitsOf(n), 6)

DigitValue(c) == (CHOOSE i \in 1..10 : Digit[i] = c) - 1

RECURSIVE ParseInt(_)
\* int("000123")
ParseInt(s) ==
    IF Len(s) = 0 THEN 0
    ELSE 10 * ParseInt(SubSeq(s, 1, Len(s) - 1)) + DigitValue(s[Len(s)])

\* f"{dur / 24.0:.2f}" in hundredths: correctly rounded, ties to even
DurationHundredths(d) ==
    LET q == (d * 100) \div 24
        r == (d * 100) % 24
    IN  IF 2 * r > 24 \/ (2 * r = 24 /\ q % 2 = 1) THEN q + 1 ELSE q

\* what the presentation type "f" with precision p makes of a number that is
\* given by its sign, its integer part and p + 1 fractional digits: the value
\* is rounded to p decimals (a tie, which only a number the float holds
\* exactly can be, goes to the even digit), carrying into the integer part
Rounded(v, p) ==
    LET q  == v.frac \div 10
        r  == v.frac % 10
        f  == IF r > 5 \/ (r = 5 /\ q % 2 = 1) THEN q + 1 ELSE q
    IN  IF f = 10^p
        THEN [neg |-> v.neg, int |-> v.int + 1, frac |-> 0]
        ELSE [neg |-> v.neg, int |-> v.int, frac |-> f]

\* a fixed-point number: sign, integer part, fractional digits
\* f"{v:+0W.Pf}" (plus = TRUE) and f"{v:0W.Pf}" (plus = FALSE)
FmtFixed(v, w, p, plus) ==
    LET sign == IF v.neg THEN <<"-">> ELSE IF plus THEN <<"+">> ELSE <<>>
        u    == Rounded(v, p)
        body == DigitsOf(u.int) \o <<".">> \o ZeroPad(DigitsOf(u.frac), p)
    IN  sign \o ZeroPad(body, w - Len(sign))

\* glob: "?" matches exactly one character, anything else matches itself
GlobMatch(pattern, name) ==
    /\ Len(pattern) = Len(name)
    /\ \A i \in 1..Len(pattern) : pattern[i] = "?" \/ pattern[i] = name[i]

WkbGz == <<".", "w", "k", "b", ".", "g", "z">>

-----------------------------------------------------------------------------
(* File names and contents *)

\* {dname}/allLands.wkb.gz of combination c
AllLandsFile(c) == <<"allLands", c>>
\* complexity_res=..._nAng=..._prec=....png of combination c
ComplexityPng(c) == <<"complexity", c>>
\* {dname}/istep={n:06d}.wkb.gz of combination c
LimitFile(c, n) == <<"limit", c, <<"i", "s", "t", "e", "p", "=">> \o Fmt06d(n) \o WkbGz>>
\* {outDir}/lon=..._lat=.../dist={dist:05d}_Flight.png
FrameFile(d) == <<"frame", d>>
\* {outDir}/lon=..._lat=..._Flight.mp4 and ..._Flight{maxSize:04d}px.mp4
Mp4File(size) == <<"mp4", size>>
\* a file of saveAllLands' dname with base name s
TmpFile(s) == <<"tmp", s>>
\* wName and gName of saveAllLands
NamedFile(s) == <<"named", s>>

Exists(f) == f \in DOMAIN fs

\* a file written by step "by" of this run, holding n polygons (0: not a geometry)
Content(by, n) == [by |-> by, n |-> n]
\* a file that was there before the run started
Old(n) == Content("before", n)

Write(files, f, c) == [g \in DOMAIN files \cup {f} |-> IF g = f THEN c ELSE files[g]]

\* an external call: what is called, on what, with which timeout
Call(op, on, timeout) == [op |-> op, on |-> on, timeout |-> timeout]

-----------------------------------------------------------------------------
(* The GFT command line and the effect of running it *)

\* freqLand = 8 * 928000 // prec; freqPlot = freqSimp = 928000 // prec
Freq(hours, prec) == (hours * MetresPerHour) \div prec

\* the command of complexity.py for combination c
ComplexityCmd(c) ==
    [ lon |-> "0.0", lat |-> "0.0", duration |-> 1,
      freqLand |-> Freq(8, combs[c].prec),
      freqPlot |-> Freq(1, combs[c].prec),
      freqSimp |-> Freq(1, combs[c].prec),
      gshhgRes |-> "c",
      nAng |-> combs[c].nAng, neRes |-> combs[c].neRes, prec |-> combs[c].prec,
      debug |-> args.debug, plot |-> FALSE ]

\* a command that is populated from the first tuple whatever the loop variable
RipplesCmd_Stale(d, c) ==
    [ lon |-> "+139.779999", lat |-> "+35.552299", duration |-> DurationHundredths(d),
      freqLand |-> Freq(8, combs[1].prec),
      freqPlot |-> Freq(1, combs[1].prec),
      freqSimp |-> Freq(1, combs[1].prec),
      gshhgRes |-> "c",
      nAng |-> combs[1].nAng, neRes |-> combs[1].neRes, prec |-> combs[1].prec,
      debug |-> args.debug, plot |-> args.plot ]

\* the command of ripples_flight.py for duration d and combination c
RipplesCmd(d, c) ==
    [ lon |-> "+139.779999", lat |-> "+35.552299", duration |-> DurationHundredths(d),
      freqLand |-> Freq(8, combs[c].prec),
      freqPlot |-> Freq(1, combs[c].prec),
      freqSimp |-> Freq(1, combs[c].prec),
      gshhgRes |-> "c",
      nAng |-> combs[c].nAng, neRes |-> combs[c].neRes, prec |-> combs[c].prec,
      debug |-> args.debug, plot |-> args.plot ]

\* "if not args.dryRun:" of complexity.py
ComplexityRunsGFT == ~args.dryRun

\* a sweep that forgets --dry-run
RipplesRunsGFT_Always == TRUE

\* "if not args.dryRun:" of ripples_flight.py
RipplesRunsGFT == ~args.dryRun

\* the timeout that subprocess.run is given for GFT
GFTTimeout == NoTimeout

\* the timeout handed to optimise_image
OptimiseTimeout == args.timeout

\* the timeout handed to images2mp4
Mp4Timeout == args.timeout

\* GFT is external: what it leaves on disk for combination c is the
\* environment's choice (nothing at all when it fails, as check = False)
GftEffect(files, c) ==
    LET new == {LimitFile(c, n) : n \in env.gftLimit[c]}
               \cup (IF env.gftLands THEN {AllLandsFile(c)} ELSE {})
    IN  [f \in DOMAIN files \cup new |->
            IF f \in new THEN Content("gft", 1) ELSE files[f]]

-----------------------------------------------------------------------------
(* complexity.py *)

\* one iteration of the first "for nAng, neRes, prec, color in combs"
ComplexitySweep ==
    /\ script = "complexity"
    /\ pc = "sweep"
    /\ printed' = Append(printed, ComplexityCmd(k))
    /\ IF ComplexityRunsGFT
       THEN /\ calls' = Append(calls, Call("gft", ComplexityCmd(k), GFTTimeout))
            /\ fs' = GftEffect(fs, k)
       ELSE UNCHANGED <<calls, fs>>
    /\ IF k < Len(combs)
       THEN /\ k' = k + 1
            /\ pc' = pc
       ELSE /\ k' = 1
            /\ pc' = "survey"
    /\ UNCHANGED <<script, args, env, fs0, dur, dist, reads, maxDist, frames, geom, polys, ret>>

\* a survey loop that also skips a combination whose PNG is there already
ComplexitySkips_IfPng(c) == ~Exists(AllLandsFile(c)) \/ Exists(ComplexityPng(c))

\* "if not os.path.exists(fname): continue" of the survey loop
ComplexitySkips(c) == ~Exists(AllLandsFile(c))

\* one iteration of the second loop: skip or histogram, save and optimise the PNG
ComplexitySurvey ==
    /\ script = "complexity"
    /\ pc = "survey"
    /\ IF ComplexitySkips(k)
       THEN UNCHANGED <<fs, calls, reads>>
       ELSE /\ reads' = Append(reads, AllLandsFile(k))
            /\ fs' = Write(fs, ComplexityPng(k), Content("complexity", 0))
            /\ calls' = Append(calls, Call("optimise_image", ComplexityPng(k), OptimiseTimeout))
    /\ IF k < Len(combs)
       THEN /\ k' = k + 1
            /\ pc' = pc
       ELSE /\ k' = 1
            /\ pc' = "done"
    /\ UNCHANGED <<script, args, env, fs0, dur, dist, printed, maxDist, frames, geom, polys, ret>>

-----------------------------------------------------------------------------
(* ripples_flight.py *)

\* one iteration of "for dur in range(1, 25): for ... in combs:"
RipplesSweep ==
    /\ script = "ripples_flight"
    /\ pc = "sweep"
    /\ printed' = Append(printed, RipplesCmd(dur, k))
    /\ IF RipplesRunsGFT
       THEN /\ calls' = Append(calls, Call("gft", RipplesCmd(dur, k), GFTTimeout))
            /\ fs' = GftEffect(fs, k)
       ELSE UNCHANGED <<calls, fs>>
    /\ IF k < Len(combs)
       THEN /\ k' = k + 1
            /\ UNCHANGED <<dur, pc>>
       ELSE /\ k' = 1
            /\ IF dur < LastDur
               THEN /\ dur' = dur + 1
                    /\ pc' = pc
               ELSE /\ dur' = dur
                    /\ pc' = "survey"
    /\ UNCHANGED <<script, args, env, fs0, dist, reads, maxDist, frames, geom, polys, ret>>

\* the pattern "istep=??????.wkb.gz"
LimitPattern == <<"i", "s", "t", "e", "p", "=">> \o Repeat("?", 6) \o WkbGz

\* glob.glob(f"{dname}/istep=??????.wkb.gz") for combination c
LimitGlob(c) ==
    {f \in DOMAIN fs : f[1] = "limit" /\ f[2] = c /\ GlobMatch(LimitPattern, f[3])}

\* the order of sorted() on names of equal length that differ only in digits
LexLess(a, b) ==
    \E i \in 1..Len(a) :
        /\ \A j \in 1..(i - 1) : a[j] = b[j]
        /\ a[i] /= b[i]
        /\ DigitValue(a[i]) < DigitValue(b[i])

\* sorted(...)[-1]
SortedLast(S) == CHOOSE f \in S : \A g \in S \ {f} : LexLess(g[3], f[3])

\* int(os.path.basename(fname).split("=")[1].split(".")[0])
StepOfName(name) ==
    LET eq  == CHOOSE i \in 1..Len(name) :
                   name[i] = "=" /\ \A j \in 1..(i - 1) : name[j] /= "="
        dot == CHOOSE i \in (eq + 1)..Len(name) :
                   name[i] = "." /\ \A j \in (eq + 1)..(i - 1) : name[j] /= "."
    IN  ParseInt(SubSeq(name, eq + 1, dot - 1))

\* one iteration of the survey loop: the maximum distance calculated so far
RipplesSurvey ==
    /\ script = "ripples_flight"
    /\ pc = "survey"
    /\ LimitGlob(k) /= {}
    /\ LET fname == SortedLast(LimitGlob(k))
           istep == StepOfName(fname[3])
       IN  /\ reads' = Append(reads, fname)
           /\ maxDist' = [maxDist EXCEPT ![k] = istep * combs[k].prec]
    /\ IF k < Len(combs)
       THEN /\ k' = k + 1
            /\ UNCHANGED <<pc, dist>>
       ELSE /\ k' = 1
            /\ pc' = "frames"
            /\ dist' = 1
    /\ UNCHANGED <<script, args, env, fs0, dur, fs, printed, calls, frames, geom, polys, ret>>

\* sorted(glob.glob(...))[-1] of an empty list raises IndexError
RipplesSurveyFails ==
    /\ script = "ripples_flight"
    /\ pc = "survey"
    /\ LimitGlob(k) = {}
    /\ pc' = "crashed"
    /\ UNCHANGED <<script, args, env, fs0, dur, k, dist, fs, printed, calls, reads,
                   maxDist, frames, geom, polys, ret>>

\* a step count that is not taken down by one before "istep + 1" is formatted
StepOfDist_NoMinus(d, prec) == (1000 * d) \div prec

\* "istep = ((1000 * dist) // prec) - 1"
StepOfDist(d, prec) == ((1000 * d) \div prec) - 1

\* "if (1000 * dist) % prec != 0: continue"
TooCoarse(d, prec) == (1000 * d) % prec /= 0

\* the name "fname" of combination c for distance d
FrameLimitFile(d, c) == LimitFile(c, StepOfDist(d, combs[c].prec) + 1)

\* the list "fnames" built by the inner loop over combs
Fnames(d) ==
    LET Kept(c) == ~TooCoarse(d, combs[c].prec) /\ Exists(FrameLimitFile(d, c))
        sel == SelectSeq([c \in 1..Len(combs) |-> c], Kept)
    IN  [i \in 1..Len(sel) |-> FrameLimitFile(d, sel[i])]

\* a frame loop that never takes the frame for made
FramePresent_Never(d) == FALSE

\* "if os.path.exists(frame):"
FramePresent(d) == Exists(FrameFile(d))

\* a test that is content with the limit file of a single combination
NotEnoughFiles_None(d) == Len(Fnames(d)) = 0

\* "if len(fnames) != len(combs): continue"
NotEnoughFiles(d) == Len(Fnames(d)) /= Len(combs)

\* os.path.dirname(os.path.dirname(os.path.dirname(fname))) + "/allLands.wkb.gz"
AllLandsOf(fname) == AllLandsFile(fname[2])

\* a frame loop that stops at the end of its first iteration
NextDist_Break ==
    /\ dist' = dist
    /\ pc' = "mp4"
    /\ k' = 1

\* the end of one iteration of "for dist in range(1, 30000 + 1, 1)"
NextDist ==
    IF dist < MaxFrameDist
    THEN /\ dist' = dist + 1
         /\ UNCHANGED <<pc, k>>
    ELSE /\ dist' = dist
         /\ pc' = "mp4"
         /\ k' = 1

\* the frame exists: append it to the list and skip
FrameExists ==
    /\ script = "ripples_flight"
    /\ pc = "frames"
    /\ FramePresent(dist)
    /\ frames' = Append(frames, FrameFile(dist))
    /\ NextDist
    /\ UNCHANGED <<script, args, env, fs0, dur, fs, printed, calls, reads, maxDist,
                   geom, polys, ret>>

\* the frame is missing and so is at least one limit file: skip
FrameSkipped ==
    /\ script = "ripples_flight"
    /\ pc = "frames"
    /\ ~FramePresent(dist)
    /\ NotEnoughFiles(dist)
    /\ NextDist
    /\ UNCHANGED <<script, args, env, fs0, dur, fs, printed, calls, reads, maxDist,
                   frames, geom, polys, ret>>

\* the frame is missing and every limit file is there: make, save, optimise, append
FrameRendered ==
    /\ script = "ripples_flight"
    /\ pc = "frames"
    /\ ~FramePresent(dist)
    /\ ~NotEnoughFiles(dist)
    /\ LET fnames == Fnames(dist)
       IN  /\ Exists(AllLandsOf(fnames[Len(fnames)]))
           /\ reads' = reads \o <<AllLandsOf(fnames[Len(fnames)])>> \o fnames
    /\ fs' = Write(fs, FrameFile(dist), Content("ripples_flight", 0))
    /\ calls' = Append(calls, Call("optimise_image", FrameFile(dist), OptimiseTimeout))
    /\ frames' = Append(frames, FrameFile(dist))
    /\ NextDist
    /\ UNCHANGED <<script, args, env, fs0, dur, printed, maxDist, geom, polys, ret>>

\* gzip.open of a missing allLands.wkb.gz raises FileNotFoundError
FrameFails ==
    /\ script = "ripples_flight"
    /\ pc = "frames"
    /\ ~FramePresent(dist)
    /\ ~NotEnoughFiles(dist)
    /\ LET fnames == Fnames(dist)
       IN  ~Exists(AllLandsOf(fnames[Len(fnames)]))
    /\ pc' = "crashed"
    /\ UNCHANGED <<script, args, env, fs0, dur, k, dist, fs, printed, calls, reads,
                   maxDist, frames, geom, polys, ret>>

\* images2mp4(frames, ...) and shutil.move of its result, for maxSizes[k]
MakeMp4 ==
    /\ script = "ripples_flight"
    /\ pc = "mp4"
    /\ calls' = Append(calls, Call("images2mp4", <<maxSizes[k], frames>>, Mp4Timeout))
    /\ fs' = Write(fs, Mp4File(maxSizes[k]), Content("images2mp4", 0))
    /\ IF k < Len(maxSizes)
       THEN /\ k' = k + 1
            /\ pc' = pc
       ELSE /\ k' = 1
            /\ pc' = "done"
    /\ UNCHANGED <<script, args, env, fs0, dur, dist, printed, reads, maxDist, frames,
                   geom, polys, ret>>

-----------------------------------------------------------------------------
(* gft/saveAllLands.py *)

RemoveSuffix(s, suf) ==
    IF Len(s) >= Len(suf) /\ SubSeq(s, Len(s) - Len(suf) + 1, Len(s)) = suf
    THEN SubSeq(s, 1, Len(s) - Len(suf))
    ELSE s

\* gName = f'{wName.removesuffix(".wkb.gz")}.geojson'
GName(wName) == RemoveSuffix(wName, WkbGz) \o <<".geojson">>

\* a tmpName whose first field is one character narrower (+010.6f)
TmpName_Narrow(r) ==
    FmtFixed(r.x, 10, 6, TRUE) \o <<",">> \o FmtFixed(r.y, 10, 6, TRUE) \o <<",">>
        \o FmtFixed(r.area, 12, 7, FALSE) \o WkbGz

\* the base name of tmpName: centroid.x:+011.6f , centroid.y:+010.6f , area:012.7f
TmpName(r) ==
    FmtFixed(r.x, 11, 6, TRUE) \o <<",">> \o FmtFixed(r.y, 10, 6, TRUE) \o <<",">>
        \o FmtFixed(r.area, 12, 7, FALSE) \o WkbGz

\* the pattern "????.??????,???.??????,????.???????.wkb.gz"
TmpPattern ==
    Repeat("?", 4) \o <<".">> \o Repeat("?", 6) \o <<",">>
        \o Repeat("?", 3) \o <<".">> \o Repeat("?", 6) \o <<",">>
        \o Repeat("?", 4) \o <<".">> \o Repeat("?", 7) \o WkbGz

\* an aggregation that loads every file of dname
TmpGlob_All == {f \in DOMAIN fs : f[1] = "tmp"}

\* glob.glob(f"{dname}/????.??????,???.??????,????.???????.wkb.gz")
TmpGlob == {f \in DOMAIN fs : f[1] = "tmp" /\ GlobMatch(TmpPattern, f[2])}

\* a record loop that never takes the temporary file for made
TmpPresent_Never(r) == FALSE

\* "if os.path.exists(tmpName):"
TmpPresent(r) == Exists(TmpFile(TmpName(r)))

\* "if neName not in avoidCountries: continue"
Avoided(r) == r.name \in args.avoidCountries

\* "if local and maxPlane is not None:" ... "if maxPlane.disjoint(poly): continue"
Clipped(part) == args.local /\ args.maxPlane /= "None" /\ part = "out"

\* the Polygons of record r that reach the buffering step, by index
Survivors(r) == SelectSeq([j \in 1..Len(r.parts) |-> j], LAMBDA j : ~Clipped(r.parts[j]))

\* a test that lets a distance of zero through
Buffers_NonNegative == args.dist >= 0

\* "if dist > 0.0:"
Buffers == args.dist > 0

\* a test that lets a simplification of zero through
Simplifies_NonNegative == args.simp >= 0

\* "if simp > 0.0:"
Simplifies == args.simp > 0

\* a geometry operation on a subject, with the parameter it is given
Geom(op, on, par) ==
    [op |-> op, on |-> on, par |-> par, by |-> IF par \in DOMAIN args THEN args[par] ELSE 0]

\* the calls of pyguymer3.geo.buffer made for record number i
BufferOps(i, r) ==
    IF Buffers
    THEN [n \in 1..Len(Survivors(r)) |-> Geom("buffer", <<"poly", i, Survivors(r)[n]>>, "dist")]
    ELSE <<>>

\* "if debug: pyguymer3.geo.check(polys)"
CheckOps(on) == IF args.debug THEN <<Geom("check", on, "none")>> ELSE <<>>

\* shapely.ops.unary_union(polys).simplify(tol) of record number i, and its dump
RecordOps(i) ==
    <<Geom("simplify", <<"record", i, 0>>, "tol")>> \o CheckOps(<<"record", i, 0>>)
        \o <<Geom("save", <<"record", i, 0>>, "none")>>

\* the end of one iteration of "for record in ...records()"
NextRecord ==
    IF k < Len(env.records)
    THEN /\ k' = k + 1
         /\ pc' = pc
    ELSE /\ k' = 1
         /\ pc' = "aggregate"

\* the record is not one to avoid
RecordNotAvoided ==
    /\ script = "saveAllLands"
    /\ pc = "records"
    /\ ~Avoided(env.records[k])
    /\ NextRecord
    /\ UNCHANGED <<script, args, env, fs0, dur, dist, fs, printed, calls, reads, maxDist,
                   frames, geom, polys, ret>>

\* "if os.path.exists(tmpName): continue"
RecordCached ==
    /\ script = "saveAllLands"
    /\ pc = "records"
    /\ Avoided(env.records[k])
    /\ TmpPresent(env.records[k])
    /\ NextRecord
    /\ UNCHANGED <<script, args, env, fs0, dur, dist, fs, printed, calls, reads, maxDist,
                   frames, geom, polys, ret>>

\* "if not polys: continue" after the loop over the record's Polygons
RecordEmpty ==
    /\ script = "saveAllLands"
    /\ pc = "records"
    /\ Avoided(env.records[k])
    /\ ~TmpPresent(env.records[k])
    /\ Len(Survivors(env.records[k])) = 0
    /\ geom' = geom \o BufferOps(k, env.records[k])
    /\ NextRecord
    /\ UNCHANGED <<script, args, env, fs0, dur, dist, fs, printed, calls, reads, maxDist,
                   frames, polys, ret>>

\* the record's Polygons are clipped, buffered, unified and saved to tmpName
RecordSaved ==
    /\ script = "saveAllLands"
    /\ pc = "records"
    /\ Avoided(env.records[k])
    /\ ~TmpPresent(env.records[k])
    /\ Len(Survivors(env.records[k])) > 0
    /\ geom' = geom \o BufferOps(k, env.records[k]) \o RecordOps(k)
    /\ fs' = Write(fs, TmpFile(TmpName(env.records[k])),
                   Content("saveAllLands", Len(Survivors(env.records[k]))))
    /\ NextRecord
    /\ UNCHANGED <<script, args, env, fs0, dur, dist, printed, calls, reads, maxDist,
                   frames, polys, ret>>

RECURSIVE CountPolys(_)
\* the number of Polygons that the aggregation loop collects from the files S
CountPolys(S) ==
    IF S = {} THEN 0
    ELSE LET f == CHOOSE g \in S : TRUE
         IN  fs[f].n + CountPolys(S \ {f})

\* "if not polys: return False"
NoLand == CountPolys(TmpGlob) = 0

\* the final MultiPolygon: unified, simplified by tol, interior rings removed,
\* then (if asked for) simplified by simp with its interior rings removed again,
\* then dumped to wName and gName
FinalOps ==
    <<Geom("simplify", <<"final", 0, 0>>, "tol"),
      Geom("removeInteriorRings", <<"final", 0, 0>>, "none")>>
        \o CheckOps(<<"final", 0, 0>>)
        \o (IF Simplifies
            THEN <<Geom("simplify", <<"final", 0, 0>>, "simp"),
                   Geom("removeInteriorRings", <<"final", 0, 0>>, "none")>>
                     \o CheckOps(<<"final", 0, 0>>)
            ELSE <<>>)
        \o <<Geom("save", <<"final", 0, 0>>, "none")>>

\* the aggregation finds no Polygon: return False
ReturnFalse ==
    /\ script = "saveAllLands"
    /\ pc = "aggregate"
    /\ NoLand
    /\ polys' = CountPolys(TmpGlob)
    /\ ret' = "False"
    /\ pc' = "done"
    /\ UNCHANGED <<script, args, env, fs0, dur, k, dist, fs, printed, calls, reads,
                   maxDist, frames, geom>>

\* the aggregation finds land: unify, simplify, save wName and gName, return True
SaveAndReturnTrue ==
    /\ script = "saveAllLands"
    /\ pc = "aggregate"
    /\ ~NoLand
    /\ polys' = CountPolys(TmpGlob)
    /\ geom' = geom \o FinalOps
    /\ fs' = Write(Write(fs, NamedFile(args.wName), Content("saveAllLands", 1)),
                   NamedFile(GName(args.wName)), Content("saveAllLands", 1))
    /\ ret' = "True"
    /\ pc' = "done"
    /\ UNCHANGED <<script, args, env, fs0, dur, k, dist, printed, calls, reads,
                   maxDist, frames>>

-----------------------------------------------------------------------------
(* The inputs of a run *)

\* the values of --timeout that are tried
Timeouts == {DefaultTimeout, 10}

\* which allLands.wkb.gz files are there before complexity.py starts
LandsBefore == {{}, {2}, {1, 3}, {1, 2, 3}}

\* which complexity PNG files are there before complexity.py starts
PngsBefore == {{}, {1}, {2, 3}}

\* what GFT leaves behind when it is run: the steps it writes into the limit
\* directory of each combination, and whether it writes allLands.wkb.gz
GftOutcomes ==
    { [gftLimit |-> <<{}, {}, {}>>, gftLands |-> FALSE, records |-> <<>>],
      [gftLimit |-> <<{1, 2}, {1, 2, 3, 4}, {1, 2, 3, 4, 5, 6, 7, 8}>>, gftLands |-> TRUE,
       records |-> <<>>] }

\* the combinations of --debug and --plot that are tried
Flags == {<<FALSE, FALSE>>, <<TRUE, TRUE>>}

\* the limit files that are there before ripples_flight.py starts
LimitsBefore ==
    { <<{}, {}, {}>>,
      <<{1}, {2}, {}>>,
      <<{1, 2}, {2, 4}, {4}>>,
      <<{2}, {3, 4}, {8}>> }

\* the frames that are there before ripples_flight.py starts
FramesBefore == {{}, {116}, {7, 116, 232}}

FilesOf(S) == [f \in S |-> Old(1)]

InitCommon ==
    /\ dur = 1
    /\ k = 1
    /\ dist = 1
    /\ printed = <<>>
    /\ calls = <<>>
    /\ reads = <<>>
    /\ maxDist = [c \in 1..Len(combs) |-> 0]
    /\ frames = <<>>
    /\ geom = <<>>
    /\ polys = 0
    /\ ret = "none"
    /\ fs0 = fs

InitComplexity ==
    /\ script = "complexity"
    /\ pc = "sweep"
    /\ args \in [debug : BOOLEAN, dryRun : BOOLEAN, timeout : Timeouts]
    /\ env \in GftOutcomes
    /\ \E lands \in LandsBefore, pngs \in PngsBefore :
          fs = FilesOf({AllLandsFile(c) : c \in lands} \cup {ComplexityPng(c) : c \in pngs})

InitRipples ==
    /\ script = "ripples_flight"
    /\ pc = "sweep"
    /\ \E fl \in Flags, dry \in BOOLEAN :
          args = [debug |-> fl[1], dryRun |-> dry, plot |-> fl[2], timeout |-> DefaultTimeout]
    /\ env \in GftOutcomes
    /\ \E lim \in LimitsBefore, fr \in FramesBefore, lands \in {{}, {1, 2, 3}},
          mp4 \in {{}, {0, 512}} :
          fs = FilesOf(UNION {{LimitFile(c, n) : n \in lim[c]} : c \in 1..Len(combs)}
                       \cup {FrameFile(d) : d \in fr}
                       \cup {AllLandsFile(c) : c \in lands}
                       \cup {Mp4File(m) : m \in mp4})

\* a number as it is formatted: sign, integer part, fractional digits
Fixed(neg, int, frac) == [neg |-> neg, int |-> int, frac |-> frac]

\* records of the admin_0_countries shapefile: NAME, centroid, area (the
\* fraction of x and y in 10^-7, of the area in 10^-8: one digit more than is
\* formatted) and, for each Polygon of the geometry, whether it meets maxPlane
\* ("in") or is disjoint from it ("out")
Russia ==
    [name |-> "Russia", x |-> Fixed(FALSE, 96, 5000000), y |-> Fixed(FALSE, 61, 9800000),
     area |-> Fixed(FALSE, 2932, 12345670), parts |-> <<"in", "out">>]
Iran ==
    [name |-> "Iran", x |-> Fixed(FALSE, 54, 3000000), y |-> Fixed(FALSE, 32, 5000000),
     area |-> Fixed(FALSE, 152, 50000000), parts |-> <<"in">>]
Ukraine ==
    [name |-> "Ukraine", x |-> Fixed(FALSE, 31, 2000000), y |-> Fixed(FALSE, 49, 0),
     area |-> Fixed(FALSE, 72, 10000000), parts |-> <<"out">>]
Baikonur ==
    [name |-> "Baikonur", x |-> Fixed(FALSE, 63, 3000000), y |-> Fixed(FALSE, 45, 9000000),
     area |-> Fixed(FALSE, 0, 70000000), parts |-> <<>>]
Chile ==
    [name |-> "Chile", x |-> Fixed(TRUE, 71, 5000000), y |-> Fixed(TRUE, 37, 7000000),
     area |-> Fixed(FALSE, 80, 25000000), parts |-> <<"in">>]
Vast ==
    [name |-> "Russia", x |-> Fixed(TRUE, 170, 2500000), y |-> Fixed(FALSE, 66, 100),
     area |-> Fixed(FALSE, 12345, 0), parts |-> <<"in">>]
\* a record whose values lie just under the limits and are rounded down
\* (-999.9999994, +99.9999994, 9999.99999994)
Under ==
    [name |-> "Ukraine", x |-> Fixed(TRUE, 999, 9999994), y |-> Fixed(FALSE, 99, 9999994),
     area |-> Fixed(FALSE, 9999, 99999994), parts |-> <<"in">>]
\* records with one value just under its limit that is rounded up to it
\* (area 9999.99999996, x 999.9999996, y -99.9999996)
BrinkArea ==
    [name |-> "Iran", x |-> Fixed(FALSE, 0, 78125), y |-> Fixed(FALSE, 0, 234375),
     area |-> Fixed(FALSE, 9999, 99999996), parts |-> <<"in">>]
BrinkX ==
    [name |-> "Iran", x |-> Fixed(FALSE, 999, 9999996), y |-> Fixed(FALSE, 32, 5000000),
     area |-> Fixed(FALSE, 152, 50000000), parts |-> <<"in">>]
BrinkY ==
    [name |-> "Iran", x |-> Fixed(FALSE, 54, 3000000), y |-> Fixed(TRUE, 99, 9999996),
     area |-> Fixed(FALSE, 0, 390625), parts |-> <<"in">>]

\* the shapefiles that are tried
Shapefiles ==
    { <<Russia, Chile, Iran>>, <<Chile, Ukraine>>, <<Baikonur>>, <<Iran, Iran>>,
      <<Vast, Chile>>, <<Ukraine, Russia>>, <<Under, BrinkArea>>, <<BrinkX>>,
      <<BrinkY, Russia>> }

\* a file of dname whose name does not match the pattern
StrayName == <<"n", "o", "t", "e", "s">> \o WkbGz

\* the contents of dname before saveAllLands is called
DnameBefore ==
    { <<>>,
      TmpFile(TmpName(Iran)) :> Old(1),
      TmpFile(TmpName(Russia)) :> Old(0) @@ TmpFile(StrayName) :> Old(2),
      TmpFile(TmpName(Chile)) :> Old(2) }

\* the values of wName that are tried
WNames == { <<"allLands">> \o WkbGz, <<"allLands", ".", "w", "k", "b">> }

InitSaveAllLands ==
    /\ script = "saveAllLands"
    /\ pc = "records"
    /\ args \in [ avoidCountries : {{"Baikonur", "Iran", "Russia", "Ukraine"}},
                  debug : BOOLEAN, dist : {-1, 0, 20000}, local : BOOLEAN,
                  maxPlane : {"None", "plane"}, simp : {-1, 0, 1}, tol : {1},
                  wName : WNames ]
    /\ env \in [gftLimit : {<<{}, {}, {}>>}, gftLands : {FALSE}, records : Shapefiles]
    /\ \E d \in DnameBefore, named \in BOOLEAN :
          fs = d @@ (IF named
                     THEN FilesOf({NamedFile(args.wName), NamedFile(GName(args.wName))})
                     ELSE <<>>)

Init ==
    /\ \/ InitComplexity
       \/ InitRipples
       \/ InitSaveAllLands
    /\ InitCommon

Next ==
    \/ ComplexitySweep
    \/ ComplexitySurvey
    \/ RipplesSweep
    \/ RipplesSurvey
    \/ RipplesSurveyFails
    \/ FrameExists
    \/ FrameSkipped
    \/ FrameRendered
    \/ FrameFails
    \/ MakeMp4
    \/ RecordNotAvoided
    \/ RecordCached
    \/ RecordEmpty
    \/ RecordSaved
    \/ ReturnFalse
    \/ SaveAndReturnTrue

Spec == Init /\ [][Next]_vars

-----------------------------------------------------------------------------
(* Properties *)

IsScript == script \in {"complexity", "ripples_flight"}

\* the commands that subprocess.run was called with, in order
GftCmds ==
    LET gft == SelectSeq(calls, LAMBDA c : c.op = "gft")
    IN  [i \in 1..Len(gft) |-> gft[i].on]

\* the number of iterations of the sweep that are complete
SweepsDone ==
    IF pc /= "sweep"
    THEN (IF script = "complexity" THEN Len(combs) ELSE LastDur * Len(combs))
    ELSE (IF script = "complexity" THEN k - 1 ELSE Len(combs) * (dur - 1) + (k - 1))

\* C1: with --dry-run no GFT subprocess is ever run although the command of
\* every iteration of the sweep is still built and printed; without --dry-run
\* subprocess.run is called once for every command that was printed.
C1_DryRunRunsNothing ==
    IsScript =>
        /\ Len(printed) = SweepsDone
        /\ args.dryRun => GftCmds = <<>>
        /\ ~args.dryRun => GftCmds = printed

\* C1 witness: a dry run of ripples_flight.py whose sweep has printed all of
\* its commands and started nothing
C1_Witness ==
    /\ script = "ripples_flight"
    /\ args.dryRun
    /\ pc = "done"
    /\ Len(printed) = LastDur * Len(combs)
    /\ GftCmds = <<>>

\* the tuple and the duration that the i-th iteration of a sweep is about
TupleOf(i) == ((i - 1) % Len(combs)) + 1
DurOf(i) == ((i - 1) \div Len(combs)) + 1

\* the i-th printed command carries the parameters of its own tuple
CarriesOwnTuple(i) ==
    /\ printed[i].nAng = combs[TupleOf(i)].nAng
    /\ printed[i].neRes = combs[TupleOf(i)].neRes
    /\ printed[i].prec = combs[TupleOf(i)].prec
    /\ script = "ripples_flight" => printed[i].duration = DurationHundredths(DurOf(i))

\* C2: a sweep issues exactly one GFT invocation per tuple of combs, in combs
\* order: 3 for complexity.py, and 72 for ripples_flight.py with dur = 1..24 as
\* the outer loop and combs as the inner loop; each invocation carries the
\* nAng, NE-resolution and precision of its own tuple.  (An invocation is
\* issued when its command is built and handed to the "Run GFT" step, which
\* executes it unless --dry-run is given.)
C2_SweepCoversCombs ==
    IsScript =>
        /\ \A i \in 1..Len(printed) : CarriesOwnTuple(i)
        /\ pc /= "sweep" =>
              /\ script = "complexity" => Len(printed) = 3
              /\ script = "ripples_flight" => Len(printed) = 72
              /\ ~args.dryRun => GftCmds = printed

\* C2 witness: ripples_flight.py has run all of its 72 invocations
C2_Witness ==
    /\ script = "ripples_flight"
    /\ pc = "survey"
    /\ ~args.dryRun
    /\ Len(GftCmds) = 72
    /\ GftCmds[72].nAng = 33
    /\ GftCmds[72].duration = 100

\* the file f is the same before and after a step
Untouched(f) == f \in DOMAIN fs' /\ fs'[f] = fs[f]

\* the number of times x occurs in the list s
Count(s, x) == Cardinality({i \in 1..Len(s) : s[i] = x})

\* the frame loop is about to consider a dist whose frame PNG exists
AtPresentFrame == script = "ripples_flight" /\ pc = "frames" /\ Exists(FrameFile(dist))

\* C3: a frame PNG that exists when its dist is reached is not rendered again:
\* the file system is left as it is, no optimiser is started, and the path is
\* appended to frames, where it occurs exactly once, whichever limit files
\* exist for that dist.
C3_PresentFrameIsKept ==
    /\ [][AtPresentFrame =>
            /\ fs' = fs
            /\ calls' = calls
            /\ reads' = reads
            /\ frames' = Append(frames, FrameFile(dist))]_vars
    /\ [](\A i \in 1..Len(frames) : Count(frames, frames[i]) = 1)

\* C3 witness: a frame that was there at the start, for which every limit file
\* exists as well, is in the list and still the file it was
C3_Witness ==
    /\ script = "ripples_flight"
    /\ pc = "done"
    /\ \E d \in 1..MaxFrameDist :
          /\ FrameFile(d) \in DOMAIN fs0
          /\ ~NotEnoughFiles(d)
          /\ Count(frames, FrameFile(d)) = 1
          /\ fs[FrameFile(d)] = fs0[FrameFile(d)]

\* the record loop is about to consider an avoided record whose tmpName exists
AtCachedRecord ==
    /\ script = "saveAllLands"
    /\ pc = "records"
    /\ env.records[k].name \in args.avoidCountries
    /\ Exists(TmpFile(TmpName(env.records[k])))

\* the temporary files that a step creates or changes
TmpWritten == {f \in DOMAIN fs' : f[1] = "tmp" /\ (f \notin DOMAIN fs \/ fs'[f] /= fs[f])}

\* C4: an avoided record whose temporary file exists is skipped: nothing is
\* buffered, clipped or simplified for it and the file system is left as it
\* is; a temporary file is written only for an avoided record whose tmpName is
\* absent and which yields at least one Polygon (and then holds them).
C4_CachedRecordIsSkipped ==
    /\ [][AtCachedRecord => fs' = fs /\ geom' = geom]_vars
    /\ [][\A f \in TmpWritten :
            /\ script = "saveAllLands" /\ pc = "records"
            /\ env.records[k].name \in args.avoidCountries
            /\ f = TmpFile(TmpName(env.records[k]))
            /\ f \notin DOMAIN fs
            /\ fs'[f].n > 0]_vars

\* C4 witness: the record loop has passed an avoided record (Iran) whose
\* temporary file was there at the start, and the file is what it was
C4_Witness ==
    /\ script = "saveAllLands"
    /\ pc = "records"
    /\ k = 2
    /\ env.records[1].name \in args.avoidCountries
    /\ TmpFile(TmpName(env.records[1])) \in DOMAIN fs0
    /\ fs = fs0
    /\ geom = <<>>

\* the output files that the repository itself writes
IsOutput(f) == f[1] \in {"complexity", "named", "frame", "mp4", "tmp"}

\* C5 as stated: no output file that exists is ever recomputed or overwritten
C5_Original_NothingIsOverwritten ==
    [][\A f \in DOMAIN fs : IsOutput(f) => Untouched(f)]_vars

\* C5 (amended): recomputation is skipped for a file that is already present
\* only for the frame PNGs and the temporary files; the complexity PNG, wName,
\* the .geojson file and the MP4 files are written anew whenever their save
\* step is reached, whether they exist or not.
C5_OnlyFramesAndTmpAreKept ==
    /\ [][\A f \in DOMAIN fs : f[1] \in {"frame", "tmp"} => Untouched(f)]_vars
    /\ [][script = "complexity" /\ pc = "survey" /\ Exists(AllLandsFile(k)) =>
            fs'[ComplexityPng(k)] = Content("complexity", 0)]_vars
    /\ [][script = "ripples_flight" /\ pc = "mp4" =>
            fs'[Mp4File(maxSizes[k])] = Content("images2mp4", 0)]_vars
    /\ [][script = "saveAllLands" /\ pc = "aggregate" /\ ret' = "True" =>
            /\ fs'[NamedFile(args.wName)] = Content("saveAllLands", 1)
            /\ fs'[NamedFile(GName(args.wName))] = Content("saveAllLands", 1)]_vars

\* C5 witness: a complexity PNG that was there at the start has been replaced
C5_Witness ==
    /\ script = "complexity"
    /\ pc = "done"
    /\ \E c \in 1..Len(combs) :
          /\ ComplexityPng(c) \in DOMAIN fs0
          /\ fs[ComplexityPng(c)] /= fs0[ComplexityPng(c)]

\* the temporary files whose names have the shape of the glob pattern: the
\* length of the pattern and its '.', ',' and ".wkb.gz" where the pattern has them
Matching ==
    {f \in DOMAIN fs : f[1] = "tmp" /\ Len(f[2]) = 42
        /\ \A i \in {5, 12, 16, 23, 28} \cup 36..42 : f[2][i] = TmpPattern[i]
        /\ f[2][12] = "," /\ f[2][23] = "," /\ f[2][5] = "."}

\* the files wName and gName are what they were when saveAllLands was called
NamedUntouched ==
    \A f \in DOMAIN fs \cup DOMAIN fs0 :
        f[1] = "named" => f \in DOMAIN fs /\ f \in DOMAIN fs0 /\ fs[f] = fs0[f]

\* wName with its suffix ".wkb.gz" replaced by ".geojson" (wName with
\* ".geojson" appended when it does not end in ".wkb.gz")
GeoJsonOf(w) ==
    IF Len(w) >= 7 /\ \A i \in 1..7 : w[Len(w) - 7 + i] = WkbGz[i]
    THEN [i \in 1..(Len(w) - 6) |-> IF i <= Len(w) - 7 THEN w[i] ELSE ".geojson"]
    ELSE Append(w, ".geojson")

\* C6: saveAllLands returns False exactly when no Polygon is found in any
\* temporary file of dname that matches the glob pattern, and then neither
\* wName nor the .geojson file is written or modified; otherwise it returns
\* True and has written wName and the .geojson file named after it.
C6_ReturnValue ==
    (script = "saveAllLands" /\ pc = "done") =>
        /\ ret \in {"True", "False"}
        /\ ret = "False" <=> \A f \in Matching : fs[f].n = 0
        /\ ret = "False" => NamedUntouched
        /\ ret = "True" =>
              /\ NamedFile(args.wName) \in DOMAIN fs
              /\ fs[NamedFile(args.wName)].by = "saveAllLands"
              /\ NamedFile(GeoJsonOf(args.wName)) \in DOMAIN fs
              /\ fs[NamedFile(GeoJsonOf(args.wName))].by = "saveAllLands"

\* C6 witness: saveAllLands has returned False although dname holds a file
\* with Polygons whose name does not match, and wName and the .geojson file,
\* which were there at the start, are what they were
C6_Witness ==
    /\ script = "saveAllLands"
    /\ pc = "done"
    /\ ret = "False"
    /\ NamedFile(args.wName) \in DOMAIN fs0
    /\ \E f \in DOMAIN fs : f[1] = "tmp" /\ f \notin Matching /\ fs[f].n > 0
    /\ fs[NamedFile(args.wName)] = fs0[NamedFile(args.wName)]

\* the record loop is about to process an avoided record whose tmpName is absent
AtNewRecord ==
    /\ script = "saveAllLands"
    /\ pc = "records"
    /\ env.records[k].name \in args.avoidCountries
    /\ ~Exists(TmpFile(TmpName(env.records[k])))

\* the indices of the Polygons of record r that survive clipping
Surviving(r) ==
    {j \in 1..Len(r.parts) :
        ~(args.local /\ args.maxPlane /= "None" /\ r.parts[j] = "out")}

\* the geometry operations that a step adds
Added == {geom'[i] : i \in (Len(geom) + 1)..Len(geom')}

\* every surviving Polygon of the record being processed is buffered by dist
BuffersSurvivors ==
    \A j \in Surviving(env.records[k]) :
        \E g \in Added : g.op = "buffer" /\ g.on = <<"poly", k, j>> /\ g.by = args.dist

NoBuffering == \A i \in 1..Len(geom) : geom[i].op /= "buffer"

\* C7 as stated: a negative dist disables buffering, any other dist buffers
\* every Polygon that survives clipping
C7_Original_NonNegativeBuffers ==
    /\ [](script = "saveAllLands" /\ args.dist < 0 => NoBuffering)
    /\ [][AtNewRecord /\ args.dist >= 0 => BuffersSurvivors]_vars

\* C7 (amended): a negative dist and a dist of zero disable buffering: no
\* Polygon is passed to the buffer operation; when dist is positive every
\* Polygon that survives clipping is buffered by dist.
C7_PositiveBuffers ==
    /\ [](script = "saveAllLands" /\ args.dist <= 0 => NoBuffering)
    /\ [][AtNewRecord /\ args.dist > 0 => BuffersSurvivors]_vars

\* C7 witness: with dist = 0 a record has been saved and nothing was buffered
C7_Witness ==
    /\ script = "saveAllLands"
    /\ args.dist = 0
    /\ \E f \in DOMAIN fs : f[1] = "tmp" /\ fs[f].by = "saveAllLands"
    /\ NoBuffering

\* the positions of geom where the final MultiPolygon is saved
FinalSaves == {i \in 1..Len(geom) : geom[i].op = "save" /\ geom[i].on[1] = "final"}

\* before position n the final MultiPolygon is simplified by simp and then
\* has its interior rings removed
SimplifiedBySimpBefore(n) ==
    \E i \in 1..(n - 1) :
        /\ geom[i].op = "simplify" /\ geom[i].on[1] = "final"
        /\ geom[i].par = "simp" /\ geom[i].by = args.simp
        /\ \E j \in (i + 1)..(n - 1) :
              geom[j].op = "removeInteriorRings" /\ geom[j].on[1] = "final"

\* C8 as stated: a negative simp means that no simplify operation at all is
\* applied; a positive simp simplifies the final MultiPolygon by simp and then
\* removes its interior rings before it is saved
C8_Original_NegativeSimpNeverSimplifies ==
    script = "saveAllLands" =>
        /\ args.simp < 0 => \A i \in 1..Len(geom) : geom[i].op /= "simplify"
        /\ args.simp > 0 => \A n \in FinalSaves : SimplifiedBySimpBefore(n)

\* C8 (amended): when simp is not positive nothing is simplified by simp, but
\* every [Multi]Polygon that is saved, intermediary or final, has still been
\* simplified by tol; when simp is positive the final MultiPolygon is
\* simplified by simp and then has its interior rings removed before it is
\* saved.
C8_SimpOnlyGuardsTheFinalSimplify ==
    script = "saveAllLands" =>
        /\ args.simp <= 0 =>
              \A i \in 1..Len(geom) : geom[i].op = "simplify" => geom[i].par = "tol"
        /\ \A n \in 1..Len(geom) :
              geom[n].op = "save" =>
                  \E i \in 1..(n - 1) :
                      /\ geom[i].op = "simplify" /\ geom[i].on = geom[n].on
                      /\ geom[i].par = "tol"
        /\ args.simp > 0 => \A n \in FinalSaves : SimplifiedBySimpBefore(n)

\* C8 witness: with a negative simp the final MultiPolygon has been saved,
\* simplified by tol only
C8_Witness ==
    /\ script = "saveAllLands"
    /\ args.simp < 0
    /\ ret = "True"
    /\ FinalSaves /= {}
    /\ \E i \in 1..Len(geom) : geom[i].op = "simplify" /\ geom[i].on[1] = "final"

\* C9: every subprocess that complexity.py and ripples_flight.py start, the
\* GFT invocations included, is bounded by the value of --timeout
C9_EverySubprocessHasTheTimeout ==
    IsScript => \A i \in 1..Len(calls) : calls[i].timeout = args.timeout

\* the first reads of ripples_flight.py are the survey's, one per combination
Surveyed ==
    /\ Len(reads) >= Len(combs)
    /\ \A c \in 1..Len(combs) : reads[c][1] = "limit" /\ reads[c][2] = c

\* the calls of images2mp4 made so far
Mp4Calls == SelectSeq(calls, LAMBDA c : c.op = "images2mp4")

\* C10: the phases are strictly ordered: every GFT invocation of the sweep is
\* issued (or skipped in dry-run) before any result file is read; in
\* ripples_flight.py the survey of all combinations finishes before the first
\* frame is considered, and every dist of the frame loop has been considered
\* before the first MP4 is made, so that all MP4 files are made from the same
\* final list of frames.
C10_PhasesAreOrdered ==
    IsScript =>
        /\ reads /= <<>> => pc /= "sweep" /\ Len(printed) = SweepsDone
        /\ (pc \in {"frames", "mp4", "done"} /\ script = "ripples_flight") => Surveyed
        /\ (frames /= <<>> \/ \E i \in 1..Len(calls) : calls[i].op = "optimise_image")
              => (script = "ripples_flight" => Surveyed)
        /\ Mp4Calls /= <<>> =>
              /\ pc \in {"mp4", "done"}
              /\ dist = MaxFrameDist
              /\ \A d \in 1..MaxFrameDist :
                    Exists(FrameFile(d)) <=> Count(frames, FrameFile(d)) = 1
              /\ \A i \in 1..Len(Mp4Calls) :
                    Mp4Calls[i].on = <<maxSizes[i], frames>>
        /\ (pc = "done" /\ script = "ripples_flight") => Len(Mp4Calls) = Len(maxSizes)

\* C10 witness: ripples_flight.py is done: four MP4 files were made, from a
\* list that holds a frame kept from before and a frame made in this run
C10_Witness ==
    /\ script = "ripples_flight"
    /\ pc = "done"
    /\ Len(Mp4Calls) = 4
    /\ Len(frames) >= 2
    /\ \E i, j \in 1..Len(frames) :
          /\ fs[frames[i]].by = "before"
          /\ fs[frames[j]].by = "ripples_flight"

\* the frame loop is about to consider a dist whose frame PNG does not exist
AtMissingFrame == script = "ripples_flight" /\ pc = "frames" /\ ~Exists(FrameFile(dist))

\* combination c passes both tests for distance d: 1000 * d is an exact
\* multiple of its prec, and the limit file of that step exists
PassesBothTests(d, c) ==
    /\ (1000 * d) % combs[c].prec = 0
    /\ Exists(LimitFile(c, (1000 * d) \div combs[c].prec))

\* the frames made in this run
Rendered == {d \in 1..MaxFrameDist : Exists(FrameFile(d)) /\ fs[FrameFile(d)].by = "ripples_flight"}

\* C11: a frame that does not exist yet is rendered only if every tuple of
\* combs passes both tests (1000 * dist an exact multiple of prec, limit file
\* there); if any tuple fails either test the frame is skipped: no file is
\* written, nothing is appended to frames.  With the combs as defined, new
\* frames are rendered only for dist that are multiples of 116.
C11_RenderNeedsEveryLimitFile ==
    /\ [][AtMissingFrame =>
            /\ (FrameFile(dist) \in DOMAIN fs' \/ frames' /= frames)
                  => \A c \in 1..Len(combs) : PassesBothTests(dist, c)
            /\ (\E c \in 1..Len(combs) : ~PassesBothTests(dist, c))
                  => fs' = fs /\ frames' = frames /\ calls' = calls /\ pc' /= "crashed"]_vars
    /\ [](script = "ripples_flight" => \A d \in Rendered : d % 116 = 0)

\* C11 witness: the frame of dist 116 has been made in this run, and the frame
\* of dist 232, for which the third tuple has no limit file, has been skipped
C11_Witness ==
    /\ script = "ripples_flight"
    /\ pc = "done"
    /\ 116 \in Rendered
    /\ ~Exists(FrameFile(232))
    /\ PassesBothTests(232, 1)
    /\ PassesBothTests(232, 2)
    /\ ~PassesBothTests(232, 3)
    /\ Count(frames, FrameFile(116)) = 1

\* the limit files among the result files opened in this step
NewLimitReads ==
    LET new == SubSeq(reads', Len(reads) + 1, Len(reads'))
    IN  {new[i] : i \in {j \in 1..Len(new) : new[j][1] = "limit"}}

\* the flown distance, in metres, that the survey loop derives from the name
\* of a limit file of combination c (ripples_flight.py 218 and 221)
SurveyDistOf(file) == StepOfName(file[3]) * combs[file[2]].prec

\* C12: the step index embedded in a limit file name is the flown distance
\* divided by the precision: for every dist and prec that pass the
\* divisibility test, the file the frame loop names, tests and reads is
\* istep=N with N * prec = 1000 * dist metres, and the survey loop's
\* conversion maxDist = istep * prec gives the same distance for that name.
C12_StepIndexIsDistOverPrec ==
    /\ [](script = "ripples_flight" /\ pc = "frames" =>
            \A c \in 1..Len(combs) :
                ~TooCoarse(dist, combs[c].prec) =>
                    /\ SurveyDistOf(FrameLimitFile(dist, c)) = 1000 * dist
                    /\ FrameLimitFile(dist, c) = reads[c] => maxDist[c] = 1000 * dist)
    /\ [][script = "ripples_flight" /\ pc = "frames" =>
            \A f \in NewLimitReads : SurveyDistOf(f) = 1000 * dist]_vars

\* C12 witness: the frame of 232 km has been made from the limit files of
\* steps 2, 4 and 8, and the survey took 232 km from the same step 8 file
C12_Witness ==
    /\ script = "ripples_flight"
    /\ pc = "done"
    /\ 232 \in Rendered
    /\ reads[3] = LimitFile(3, 8)
    /\ maxDist[3] = 232000
    /\ \E i \in (Len(combs) + 1)..Len(reads) : reads[i] = LimitFile(3, 8)
    /\ \E i \in (Len(combs) + 1)..Len(reads) : reads[i] = LimitFile(1, 2)

\* a name has the length of the pattern and "." and "," where the pattern has them
HasShape(name) ==
    /\ Len(name) = Len(TmpPattern)
    /\ \A i \in 1..Len(TmpPattern) : TmpPattern[i] \in {".", ","} => name[i] = TmpPattern[i]

\* |centroid.x| < 1000, |centroid.y| < 100 and 0 <= area < 10000
InRange(x, y, area) == x.int < 1000 /\ y.int < 100 /\ ~area.neg /\ area.int < 10000

\* the ranges, taken of the values of the record themselves
InClaimedRange(r) == InRange(r.x, r.y, r.area)

\* the ranges, taken of the values once rounded to the 6, 6 and 7 decimals of
\* the format specifications
InRoundedRange(r) == InRange(Rounded(r.x, 6), Rounded(r.y, 6), Rounded(r.area, 7))

\* what the claim says of the temporary files written in a step and of those
\* written so far, for a given reading In(r) of "within the ranges"
WrittenNamesFit(In(_)) ==
    \A f \in TmpWritten :
        LET r == env.records[k]
        IN  /\ f = TmpFile(TmpName(r))
            /\ In(r) => HasShape(f[2]) /\ GlobMatch(TmpPattern, f[2])
            /\ ~In(r) => Len(f[2]) > Len(TmpPattern) /\ ~GlobMatch(TmpPattern, f[2])

WrittenFilesFound(In(_)) ==
    script = "saveAllLands" =>
        \A i \in 1..Len(env.records) :
            LET f == TmpFile(TmpName(env.records[i]))
            IN  (f \in DOMAIN fs /\ fs[f].by = "saveAllLands") =>
                    (f \in TmpGlob <=> In(env.records[i]))

====
